---------------------------- MODULE Spec2Model ----------------------------
(***************************************************************************)
(* Model of the risk / position-size calculation engine of src/app.py.     *)
(*                                                                         *)
(* Numbers.  The program computes with Python floats and with              *)
(* decimal.Decimal.  Both are floating-point formats: a value is a         *)
(* coefficient and an exponent, and every operation rounds its exact       *)
(* result to a fixed number of significant digits (round-half-even).       *)
(* A number is modelled as [c |-> coefficient, e |-> exponent], meaning    *)
(* c * 10^e, kept canonical (no trailing zero in c).  Decimal keeps        *)
(* DecPrec significant digits (28 in Python's default context), a float    *)
(* keeps FloatPrec (binary64 keeps 53 bits, about 16 digits); the model    *)
(* keeps fewer digits of each so that the coefficients stay inside TLC's   *)
(* integers, and rounds in the same places as the program does.            *)
(* Inputs are finite numbers; IEEE NaN and infinities are not modelled.    *)
(*                                                                         *)
(* State.  pc is the operation that ran last, args its inputs (the values  *)
(* of the form's widgets) and ret what it returned or showed.  history and *)
(* saved_settings are the two keys of st.session_state; now is the wall    *)
(* clock in seconds, which save_to_history reads for the timestamp.        *)
(***************************************************************************)
EXTENDS Integers, Sequences, FiniteSets, TLC

VARIABLES pc, args, ret, history, saved_settings, now

vars == <<pc, args, ret, history, saved_settings, now>>

(***************************************************************************)
(* Bounds of the model.                                                    *)
(***************************************************************************)
\* significant digits of a float in the model
FloatPrec == 3
\* significant digits of a Decimal in the model
DecPrec == 4
\* longest list of risk levels passed to validate_inputs / the table
MaxRisks == 2

(***************************************************************************)
(* Optional values: Python's None and a present value.                     *)
(***************************************************************************)
None == <<>>
Some(x) == <<x>>
IsNone(o) == o = <<>>
Get(o) == o[1]

(***************************************************************************)
(* Floating-point decimal numbers.                                         *)
(***************************************************************************)
RECURSIVE Pow10(_)
Pow10(k) == IF k <= 0 THEN 1 ELSE 10 * Pow10(k - 1)

Abs(n) == IF n < 0 THEN -n ELSE n
Sign(n) == IF n < 0 THEN -1 ELSE 1
Min(a, b) == IF a <= b THEN a ELSE b

\* number of decimal digits of a natural number (0 has none)
RECURSIVE NumDigits(_)
NumDigits(n) == IF n = 0 THEN 0 ELSE 1 + NumDigits(n \div 10)

\* canonical form of c * 10^e
RECURSIVE Norm(_, _)
Norm(c, e) ==
    IF c = 0 THEN [c |-> 0, e |-> 0]
    ELSE IF c % 10 = 0 THEN Norm(c \div 10, e + 1)
    ELSE [c |-> c, e |-> e]

Num(c, e) == Norm(c, e)
Zero == Num(0, 0)
One == Num(1, 0)
Hundred == Num(1, 2)

\* coefficient of x at exponent e (e at most x.e)
Coef(x, e) == x.c * Pow10(x.e - e)

Less(x, y) == LET e == Min(x.e, y.e) IN Coef(x, e) < Coef(y, e)
LessEq(x, y) == LET e == Min(x.e, y.e) IN Coef(x, e) <= Coef(y, e)
Greater(x, y) == Less(y, x)
GreaterEq(x, y) == LessEq(y, x)

\* round-half-even of the magnitude m with remainder r out of d
RoundHalfEven(m, r, d) ==
    IF r > d - r \/ (r = d - r /\ m % 2 = 1) THEN m + 1 ELSE m

\* c * 10^e rounded to prec significant digits
Round(c, e, prec) ==
    LET n == NumDigits(Abs(c))
    IN  IF n <= prec THEN Norm(c, e)
        ELSE LET p == Pow10(n - prec)
                 m == RoundHalfEven(Abs(c) \div p, Abs(c) % p, p)
             IN  Norm(Sign(c) * m, e + (n - prec))

\* the digits of n / d, one at a time, until prec significant digits are
\* there or the division is exact: the quotient is m * 10^(-k)
RECURSIVE LongDiv(_, _, _, _, _)
LongDiv(m, r, d, k, prec) ==
    IF r = 0 THEN [m |-> m, k |-> k]
    ELSE IF m >= Pow10(prec - 1) THEN [m |-> RoundHalfEven(m, r, d), k |-> k]
    ELSE LongDiv(m * 10 + (r * 10) \div d, (r * 10) % d, d, k + 1, prec)

\* x / y rounded to prec significant digits (y is not zero); a quotient of
\* the coefficients with more than prec digits is cut by scaling the divisor
Div(x, y, prec) ==
    LET n == Abs(x.c)
        j == IF NumDigits(n \div Abs(y.c)) > prec
             THEN NumDigits(n \div Abs(y.c)) - prec ELSE 0
        d == Abs(y.c) * Pow10(j)
        q == LongDiv(n \div d, n % d, d, -j, prec)
    IN  Round(Sign(x.c) * Sign(y.c) * q.m, x.e - y.e - q.k, prec)

Mul(x, y, prec) == Round(x.c * y.c, x.e + y.e, prec)

Add(x, y, prec) ==
    LET e == Min(x.e, y.e) IN Round(Coef(x, e) + Coef(y, e), e, prec)

Sub(x, y, prec) ==
    LET e == Min(x.e, y.e) IN Round(Coef(x, e) - Coef(y, e), e, prec)

AbsNum(x) == [c |-> Abs(x.c), e |-> x.e]

\* float(d) for a Decimal d, and Decimal(str(f)) for a float f: str gives
\* the shortest decimal that reads back as f, so the Decimal is f exactly
float(d) == Round(d.c, d.e, FloatPrec)
Decimal(f) == Round(f.c, f.e, DecPrec)

(***************************************************************************)
(* init_session_state (src/app.py 177-187): the two keys of the session    *)
(* state as a new session has them.  A text is a sequence of characters.   *)
(***************************************************************************)
Comma == ","
ArabicComma == "U+060C"
Space == " "
Point == "."

DefaultCapital == Num(1, 3)
DefaultStopLoss == Num(15, -1)
DefaultLeverage == One
\* '0.25, 0.5, 1.0, 2.0'
DefaultRiskInput ==
    <<"0", Point, "2", "5", Comma, Space, "0", Point, "5", Comma, Space,
      "1", Point, "0", Comma, Space, "2", Point, "0">>

init_session_state ==
    /\ history = <<>>
    /\ saved_settings = [capital |-> DefaultCapital,
                         stop_loss |-> DefaultStopLoss,
                         leverage |-> One,
                         risk_levels |-> DefaultRiskInput]

(***************************************************************************)
(* validate_inputs (src/app.py 189-208).                                   *)
(***************************************************************************)
ErrCapital == "capital must be greater than zero"
ErrStopLossLow == "stop loss percent must be greater than zero"
ErrStopLossHigh == "stop loss percent cannot be 100 or more"
ErrLeverageLow == "leverage must be at least 1"
ErrLeverageHigh == "leverage cannot be more than 125"
ErrNoRisk == "enter at least one risk level"
ErrRiskLow == "all risk levels must be greater than zero"
ErrRiskHigh == "risk levels cannot be 100 or more"

MaxLeverage == Num(125, 0)

\* mutant: only the first risk level is checked
validate_risks_first_only(risk_levels, i) ==
    IF LessEq(risk_levels[1], Zero) THEN Some(ErrRiskLow)
    ELSE IF GreaterEq(risk_levels[1], Hundred) THEN Some(ErrRiskHigh)
    ELSE None

\* the loop over the risk levels, from index i on
RECURSIVE validate_risks(_, _)
validate_risks(risk_levels, i) ==
    IF i > Len(risk_levels) THEN None
    ELSE IF LessEq(risk_levels[i], Zero) THEN Some(ErrRiskLow)
    ELSE IF GreaterEq(risk_levels[i], Hundred) THEN Some(ErrRiskHigh)
    ELSE validate_risks(risk_levels, i + 1)

\* mutant: the leverage is checked before the capital
validate_inputs_leverage_first(capital, stop_loss_percentage, risk_levels, leverage) ==
    IF Less(leverage, One) THEN Some(ErrLeverageLow)
    ELSE IF Greater(leverage, MaxLeverage) THEN Some(ErrLeverageHigh)
    ELSE IF LessEq(capital, Zero) THEN Some(ErrCapital)
    ELSE IF LessEq(stop_loss_percentage, Zero) THEN Some(ErrStopLossLow)
    ELSE IF GreaterEq(stop_loss_percentage, Hundred) THEN Some(ErrStopLossHigh)
    ELSE IF Len(risk_levels) = 0 THEN Some(ErrNoRisk)
    ELSE validate_risks(risk_levels, 1)

\* mutant: the upper bound on the stop-loss is inclusive (> instead of >=)
validate_inputs_hundred_allowed(capital, stop_loss_percentage, risk_levels, leverage) ==
    IF LessEq(capital, Zero) THEN Some(ErrCapital)
    ELSE IF LessEq(stop_loss_percentage, Zero) THEN Some(ErrStopLossLow)
    ELSE IF Greater(stop_loss_percentage, Hundred) THEN Some(ErrStopLossHigh)
    ELSE IF Less(leverage, One) THEN Some(ErrLeverageLow)
    ELSE IF Greater(leverage, MaxLeverage) THEN Some(ErrLeverageHigh)
    ELSE IF Len(risk_levels) = 0 THEN Some(ErrNoRisk)
    ELSE validate_risks(risk_levels, 1)

validate_inputs(capital, stop_loss_percentage, risk_levels, leverage) ==
    IF LessEq(capital, Zero) THEN Some(ErrCapital)
    ELSE IF LessEq(stop_loss_percentage, Zero) THEN Some(ErrStopLossLow)
    ELSE IF GreaterEq(stop_loss_percentage, Hundred) THEN Some(ErrStopLossHigh)
    ELSE IF Less(leverage, One) THEN Some(ErrLeverageLow)
    ELSE IF Greater(leverage, MaxLeverage) THEN Some(ErrLeverageHigh)
    ELSE IF Len(risk_levels) = 0 THEN Some(ErrNoRisk)
    ELSE validate_risks(risk_levels, 1)

(***************************************************************************)
(* create_risk_management_table (src/app.py 257-298).  The DataFrame is    *)
(* modelled by its index labels, its column keys in insertion order        *)
(* (a column is keyed by its risk level, as the dict `data` is keyed by    *)
(* the level's text) and the rows of every column.                         *)
(***************************************************************************)
LabelRisk == "dollar risk"
LabelSize == "position size"
LabelMargin == "margin required"
ErrCalculation == "calculation error"

\* mutant: the position size is the dollar risk divided by the stop-loss
\* percentage itself, not by the stop-loss factor
column_percent_divisor(capital_dec, sl_factor, leverage_dec, leverage, risk_percent) ==
    LET risk_factor == Div(Decimal(risk_percent), Hundred, DecPrec)
        dollar_risk == float(Mul(capital_dec, risk_factor, DecPrec))
        position_size_dec ==
            Div(Mul(capital_dec, risk_factor, DecPrec),
                Mul(sl_factor, Hundred, DecPrec), DecPrec)
        position_size == float(position_size_dec)
        margin_required == float(Div(position_size_dec, leverage_dec, DecPrec))
    IN  IF Greater(leverage, One)
        THEN <<dollar_risk, position_size, margin_required>>
        ELSE <<dollar_risk, position_size>>

\* mutant: the margin row is added whenever leverage is at least 1
column_margin_always(capital_dec, sl_factor, leverage_dec, leverage, risk_percent) ==
    LET risk_factor == Div(Decimal(risk_percent), Hundred, DecPrec)
        dollar_risk == float(Mul(capital_dec, risk_factor, DecPrec))
        position_size_dec ==
            Div(Mul(capital_dec, risk_factor, DecPrec), sl_factor, DecPrec)
        position_size == float(position_size_dec)
        margin_required == float(Div(position_size_dec, leverage_dec, DecPrec))
    IN  IF GreaterEq(leverage, One)
        THEN <<dollar_risk, position_size, margin_required>>
        ELSE <<dollar_risk, position_size>>

\* the rows of one column (the body of the loop, lines 275-287)
column(capital_dec, sl_factor, leverage_dec, leverage, risk_percent) ==
    LET risk_factor == Div(Decimal(risk_percent), Hundred, DecPrec)
        dollar_risk == float(Mul(capital_dec, risk_factor, DecPrec))
        position_size_dec ==
            Div(Mul(capital_dec, risk_factor, DecPrec), sl_factor, DecPrec)
        position_size == float(position_size_dec)
        margin_required == float(Div(position_size_dec, leverage_dec, DecPrec))
    IN  IF Greater(leverage, One)
        THEN <<dollar_risk, position_size, margin_required>>
        ELSE <<dollar_risk, position_size>>

\* data[col_name] = rows: a new key is appended, an old one keeps its place
dict_set(data, key, rows) ==
    IF \E i \in 1..Len(data) : data[i].key = key
    THEN [i \in 1..Len(data) |->
            IF data[i].key = key THEN [key |-> key, rows |-> rows] ELSE data[i]]
    ELSE Append(data, [key |-> key, rows |-> rows])

\* the loop over risk_levels (lines 273-287), from index i on
RECURSIVE build_data(_, _, _, _, _, _, _)
build_data(data, capital_dec, sl_factor, leverage_dec, leverage, risk_levels, i) ==
    IF i > Len(risk_levels) THEN data
    ELSE build_data(
            dict_set(data, risk_levels[i],
                     column(capital_dec, sl_factor, leverage_dec, leverage,
                            risk_levels[i])),
            capital_dec, sl_factor, leverage_dec, leverage, risk_levels, i + 1)

index_labels(leverage) ==
    IF Greater(leverage, One)
    THEN <<LabelRisk, LabelSize, LabelMargin>>
    ELSE <<LabelRisk, LabelSize>>

\* pd.DataFrame(data, index=index_labels)
DataFrame(data, index) == [index |-> index, data |-> data]

\* returns <<table or None, error or None>>
create_risk_management_table(capital, stop_loss_percentage, risk_levels, leverage) ==
    LET error == validate_inputs(capital, stop_loss_percentage, risk_levels, leverage)
    IN  IF ~IsNone(error) THEN <<None, error>>
        ELSE LET capital_dec == Decimal(capital)
                 sl_factor == Div(Decimal(stop_loss_percentage), Hundred, DecPrec)
                 leverage_dec == Decimal(leverage)
             IN  IF sl_factor.c = 0 \/ leverage_dec.c = 0
                 THEN <<None, Some(ErrCalculation)>>
                 ELSE <<Some(DataFrame(
                            build_data(<<>>, capital_dec, sl_factor, leverage_dec,
                                       leverage, risk_levels, 1),
                            index_labels(leverage))),
                        None>>

(***************************************************************************)
(* Specification SpecSizing: validate_inputs and                           *)
(* create_risk_management_table applied to arguments drawn from sets that  *)
(* hold valid values, the boundary values and values outside the ranges.   *)
(***************************************************************************)
\* the largest float below 100
BelowHundred == Num(Pow10(FloatPrec) - 1, 2 - FloatPrec)

Capitals == {Num(-1, 2), Zero, Num(3, 2), Num(1, 3)}
StopLosses == {Zero, Num(15, -1), Num(2, 0), Num(3, 0), BelowHundred, Hundred}
Leverages == {Num(5, -1), One, Num(3, 0), Num(1, 1), MaxLeverage, Num(2, 2)}
RiskValues == {Zero, Num(25, -2), One, Num(2, 0), BelowHundred, Hundred}

SeqsUpTo(S, n) == UNION {[1..k -> S] : k \in 0..n}

SizingArgs ==
    [capital : Capitals, stop_loss_percentage : StopLosses,
     risk_levels : SeqsUpTo(RiskValues, MaxRisks), leverage : Leverages]

InitSizing ==
    /\ pc = "start"
    /\ args \in SizingArgs
    /\ ret = None
    /\ init_session_state
    /\ now = 0

CallValidateInputs ==
    /\ pc = "start"
    /\ args \in SizingArgs
    /\ pc' = "validate_inputs"
    /\ ret' = validate_inputs(args.capital, args.stop_loss_percentage,
                              args.risk_levels, args.leverage)
    /\ UNCHANGED <<args, history, saved_settings, now>>

CallCreateTable ==
    /\ pc = "start"
    /\ args \in SizingArgs
    /\ pc' = "create_risk_management_table"
    /\ ret' = create_risk_management_table(args.capital, args.stop_loss_percentage,
                                           args.risk_levels, args.leverage)
    /\ UNCHANGED <<args, history, saved_settings, now>>

NextSizing == CallValidateInputs \/ CallCreateTable

SpecSizing == InitSizing /\ [][NextSizing]_vars

(***************************************************************************)
(* Exact arithmetic, used only to state the claims.                        *)
(***************************************************************************)
ExactMul(x, y) == Norm(x.c * y.c, x.e + y.e)
Percent(x) == Norm(x.c, x.e - 2)

\* x is y up to rounding: they differ by at most two units in the last
\* significant digit of a float, |x - y| <= 2 * |y| / 10^(FloatPrec - 1)
Close(x, y) ==
    LET e == Min(x.e, y.e)
        a == Coef(x, e)
        b == Coef(y, e)
    IN  Abs(a - b) <= (2 * Abs(b)) \div Pow10(FloatPrec - 1)

RiskInRange(r) == Greater(r, Zero) /\ Less(r, Hundred)

InRange(a) ==
    /\ Greater(a.capital, Zero)
    /\ Greater(a.stop_loss_percentage, Zero)
    /\ Less(a.stop_loss_percentage, Hundred)
    /\ GreaterEq(a.leverage, One)
    /\ LessEq(a.leverage, MaxLeverage)
    /\ Len(a.risk_levels) > 0
    /\ \A i \in 1..Len(a.risk_levels) : RiskInRange(a.risk_levels[i])

Elems(seq) == {seq[i] : i \in 1..Len(seq)}

\* the constraints in the order of the claim, each with its message
Constraints(a) ==
    <<[ok |-> Greater(a.capital, Zero), msg |-> ErrCapital],
      [ok |-> Greater(a.stop_loss_percentage, Zero), msg |-> ErrStopLossLow],
      [ok |-> Less(a.stop_loss_percentage, Hundred), msg |-> ErrStopLossHigh],
      [ok |-> GreaterEq(a.leverage, One), msg |-> ErrLeverageLow],
      [ok |-> LessEq(a.leverage, MaxLeverage), msg |-> ErrLeverageHigh],
      [ok |-> Len(a.risk_levels) > 0, msg |-> ErrNoRisk]>>
    \o [j \in 1..(2 * Len(a.risk_levels)) |->
            LET r == a.risk_levels[(j + 1) \div 2]
            IN  IF j % 2 = 1
                THEN [ok |-> Greater(r, Zero), msg |-> ErrRiskLow]
                ELSE [ok |-> Less(r, Hundred), msg |-> ErrRiskHigh]]

FirstViolated(a) ==
    LET cs == Constraints(a)
        bad == {i \in 1..Len(cs) : ~cs[i].ok}
    IN  IF bad = {} THEN None
        ELSE Some(cs[CHOOSE i \in bad : \A j \in bad : i <= j].msg)

Validated == pc = "validate_inputs"
Tabled == pc = "create_risk_management_table"
HasTable == Tabled /\ ~IsNone(ret[1])
TableData == Get(ret[1]).data
TableIndex == Get(ret[1]).index

(***************************************************************************)
(* C1: validate_inputs returns the message of the first violated           *)
(* constraint, in the order capital > 0, stop-loss > 0, stop-loss < 100,   *)
(* leverage >= 1, leverage <= 125, risk levels non-empty, then every risk  *)
(* level in list order (> 0, then < 100), and no error when none is        *)
(* violated; with capital <= 0 it is the capital message whatever else is  *)
(* wrong.                                                                  *)
(***************************************************************************)
C1_FirstViolatedWins ==
    Validated =>
        /\ ret = FirstViolated(args)
        /\ (LessEq(args.capital, Zero) => ret = Some(ErrCapital))

\* capital = 0 together with leverage = 200: the capital error
C1_Witness ==
    /\ Validated
    /\ args.capital = Zero
    /\ args.leverage = Num(2, 2)
    /\ ret = Some(ErrCapital)

C3_StrictUpperBound ==
    Validated =>
        /\ (args.stop_loss_percentage = Hundred => ~IsNone(ret))
        /\ (Hundred \in Elems(args.risk_levels) => ~IsNone(ret))
        /\ (/\ InRange(args)
            /\ \/ args.stop_loss_percentage = BelowHundred
               \/ BelowHundred \in Elems(args.risk_levels)
            => IsNone(ret))

C3_Witness ==
    /\ Validated
    /\ args.stop_loss_percentage = BelowHundred
    /\ BelowHundred \in Elems(args.risk_levels)
    /\ IsNone(ret)

(***************************************************************************)
(* C8: in a returned table the column of risk level r holds                *)
(* dollarRisk = capital * r / 100 and a position size with                 *)
(* positionSize * (stopLoss / 100) = dollarRisk, and is the column the     *)
(* table of the list <<r>> alone has.                                      *)
(***************************************************************************)
\* C8 as stated: the two equations hold exactly
C8_ExactIdentities ==
    HasTable =>
        \A i \in 1..Len(TableData) :
            LET r == TableData[i].key
                rows == TableData[i].rows
            IN  /\ rows[1] = Percent(ExactMul(args.capital, r))
                /\ ExactMul(rows[2], Percent(args.stop_loss_percentage)) = rows[1]

\* C8 as amended: the two equations hold up to rounding, and the column
\* of r is the one r alone gives
C8_IdentitiesUpToRounding ==
    HasTable =>
        \A i \in 1..Len(TableData) :
            LET r == TableData[i].key
                rows == TableData[i].rows
                alone == create_risk_management_table(
                            args.capital, args.stop_loss_percentage, <<r>>,
                            args.leverage)
            IN  /\ Close(rows[1], Percent(ExactMul(args.capital, r)))
                /\ Close(ExactMul(rows[2], Percent(args.stop_loss_percentage)),
                         rows[1])
                /\ rows = Get(alone[1]).data[1].rows

\* capital = 1000, stop-loss 2%, leverage 1, risk levels 1 and 2:
\* dollar risk 10 and 20, position size 500 and 1000
C8_Witness ==
    /\ HasTable
    /\ args = [capital |-> Num(1, 3), stop_loss_percentage |-> Num(2, 0),
               risk_levels |-> <<One, Num(2, 0)>>, leverage |-> One]
    /\ TableData = <<[key |-> One, rows |-> <<Num(1, 1), Num(5, 2)>>],
                     [key |-> Num(2, 0), rows |-> <<Num(2, 1), Num(1, 3)>>]>>

(***************************************************************************)
(* C9: a returned table has the margin row if and only if leverage > 1:    *)
(* with leverage = 1 every column is [dollar risk, position size], with    *)
(* leverage > 1 it is [dollar risk, position size, margin], the first two  *)
(* rows being those of the same arguments at leverage 1, and               *)
(* margin * leverage = positionSize.                                       *)
(***************************************************************************)
RowLayout ==
    LET plain == create_risk_management_table(
                    args.capital, args.stop_loss_percentage, args.risk_levels, One)
    IN  /\ TableIndex = IF Greater(args.leverage, One)
                        THEN <<LabelRisk, LabelSize, LabelMargin>>
                        ELSE <<LabelRisk, LabelSize>>
        /\ \A i \in 1..Len(TableData) :
            /\ Len(TableData[i].rows) = Len(TableIndex)
            /\ SubSeq(TableData[i].rows, 1, 2) = Get(plain[1]).data[i].rows

\* C9 as stated: the row layout, and margin * leverage is the position
\* size exactly
C9_ExactMargin ==
    HasTable =>
        /\ RowLayout
        /\ Greater(args.leverage, One) =>
            \A i \in 1..Len(TableData) :
                ExactMul(TableData[i].rows[3], args.leverage) = TableData[i].rows[2]

\* C9 as amended: the row layout, and margin * leverage is the position
\* size up to rounding
C9_MarginRow ==
    HasTable =>
        /\ RowLayout
        /\ Greater(args.leverage, One) =>
            \A i \in 1..Len(TableData) :
                Close(ExactMul(TableData[i].rows[3], args.leverage),
                      TableData[i].rows[2])

\* capital = 1000, stop-loss 2%, leverage 10, risk level 1:
\* dollar risk 10, position size 500, margin 50
C9_Witness ==
    /\ HasTable
    /\ args = [capital |-> Num(1, 3), stop_loss_percentage |-> Num(2, 0),
               risk_levels |-> <<One>>, leverage |-> Num(1, 1)]
    /\ TableIndex = <<LabelRisk, LabelSize, LabelMargin>>
    /\ TableData = <<[key |-> One, rows |-> <<Num(1, 1), Num(5, 2), Num(5, 1)>>]>>

(***************************************************************************)
(* parse_risk_levels (src/app.py 210-235).  A text is a sequence of        *)
(* characters; a character is a one-character string, the Arabic comma     *)
(* (U+060C) is written by its code point.                                  *)
(***************************************************************************)
\* longest text given to parse_risk_levels
MaxLen == 5

DigitChars == <<"0", "1", "2", "3", "4", "5", "6", "7", "8", "9">>

IsDigit(ch) == \E d \in 1..10 : DigitChars[d] = ch
DigitValue(ch) == (CHOOSE d \in 1..10 : DigitChars[d] = ch) - 1

ErrEmptyInput == [text |-> "enter the risk levels", part |-> <<>>]
ErrNoValidLevel == [text |-> "enter at least one valid risk level", part |-> <<>>]
ErrInvalidValue(part) == [text |-> "value is not valid", part |-> part]

\* str.replace(old, new) for single characters
replace(str, old, new) ==
    [i \in 1..Len(str) |-> IF str[i] = old THEN new ELSE str[i]]

\* str.strip(): without the leading and the trailing whitespace
RECURSIVE lstrip(_)
lstrip(str) ==
    IF Len(str) > 0 /\ str[1] = Space THEN lstrip(Tail(str)) ELSE str

RECURSIVE rstrip(_)
rstrip(str) ==
    IF Len(str) > 0 /\ str[Len(str)] = Space
    THEN rstrip(SubSeq(str, 1, Len(str) - 1)) ELSE str

strip(str) == rstrip(lstrip(str))

\* str.split(sep): the pieces between the separators, empty ones included
RECURSIVE split(_, _)
split(str, sep) ==
    IF \A i \in 1..Len(str) : str[i] # sep THEN <<str>>
    ELSE LET k == CHOOSE i \in 1..Len(str) :
                    str[i] = sep /\ \A j \in 1..(i - 1) : str[j] # sep
         IN  <<SubSeq(str, 1, k - 1)>> \o split(SubSeq(str, k + 1, Len(str)), sep)

\* the decimal number written by digits
RECURSIVE DigitsValue(_)
DigitsValue(digits) ==
    IF Len(digits) = 0 THEN 0
    ELSE 10 * DigitsValue(SubSeq(digits, 1, Len(digits) - 1))
            + DigitValue(digits[Len(digits)])

\* float(part): digits with at most one point and at least one digit read
\* as the nearest float; anything else raises ValueError, modelled as None
FloatOfStr(part) ==
    LET points == {i \in 1..Len(part) : part[i] = Point}
        digits == SelectSeq(part, IsDigit)
    IN  IF /\ \A i \in 1..Len(part) : IsDigit(part[i]) \/ part[i] = Point
           /\ Cardinality(points) <= 1
           /\ Len(digits) >= 1
        THEN LET frac == IF points = {} THEN 0
                         ELSE Len(part) - (CHOOSE i \in points : TRUE)
             IN  Some(Round(DigitsValue(digits), -frac, FloatPrec))
        ELSE None

\* mutant: sorted(risk_levels), the duplicates kept
RECURSIVE sorted_list(_)
sorted_list(values) ==
    IF Len(values) = 0 THEN <<>>
    ELSE LET k == CHOOSE i \in 1..Len(values) :
                    \A j \in 1..Len(values) : LessEq(values[i], values[j])
         IN  <<values[k]>>
             \o sorted_list([i \in 1..(Len(values) - 1) |->
                                IF i < k THEN values[i] ELSE values[i + 1]])

\* sorted(set(risk_levels)): the distinct values in ascending order
RECURSIVE sorted_of_set(_)
sorted_of_set(S) ==
    IF S = {} THEN <<>>
    ELSE LET least == CHOOSE x \in S : \A y \in S : LessEq(x, y)
         IN  <<least>> \o sorted_of_set(S \ {least})

sorted_set(values) == sorted_of_set(Elems(values))

\* mutant: a part that is not a number is skipped
RECURSIVE parse_parts_skip_invalid(_, _, _)
parse_parts_skip_invalid(parts, i, risk_levels) ==
    IF i > Len(parts) THEN <<Some(risk_levels), None>>
    ELSE LET part == strip(parts[i])
         IN  IF Len(part) = 0 \/ IsNone(FloatOfStr(part))
             THEN parse_parts_skip_invalid(parts, i + 1, risk_levels)
             ELSE parse_parts_skip_invalid(parts, i + 1,
                        Append(risk_levels, Get(FloatOfStr(part))))

\* the loop over the parts (lines 219-226), from index i on: the values
\* read, or the error of the first part that is not a number
RECURSIVE parse_parts(_, _, _)
parse_parts(parts, i, risk_levels) ==
    IF i > Len(parts) THEN <<Some(risk_levels), None>>
    ELSE LET part == strip(parts[i])
         IN  IF Len(part) = 0 THEN parse_parts(parts, i + 1, risk_levels)
             ELSE IF IsNone(FloatOfStr(part))
             THEN <<None, Some(ErrInvalidValue(part))>>
             ELSE parse_parts(parts, i + 1,
                              Append(risk_levels, Get(FloatOfStr(part))))

\* returns <<list or None, error or None>>
parse_risk_levels(risk_input) ==
    IF Len(risk_input) = 0 \/ Len(strip(risk_input)) = 0
    THEN <<None, Some(ErrEmptyInput)>>
    ELSE LET parts == split(replace(risk_input, ArabicComma, Comma), Comma)
             read == parse_parts(parts, 1, <<>>)
         IN  IF IsNone(read[1]) THEN read
             ELSE IF Len(Get(read[1])) = 0 THEN <<None, Some(ErrNoValidLevel)>>
             ELSE <<Some(sorted_set(Get(read[1]))), None>>

(***************************************************************************)
(* Specification SpecParse: parse_risk_levels applied to every text of at  *)
(* most MaxLen characters over digits, the point, the two commas, the      *)
(* space and a letter.                                                     *)
(***************************************************************************)
Alphabet == {"1", "2", Point, Comma, ArabicComma, Space, "x"}

Texts == SeqsUpTo(Alphabet, MaxLen)

InitParse ==
    /\ pc = "start"
    /\ args \in [risk_input : Texts]
    /\ ret = None
    /\ init_session_state
    /\ now = 0

CallParseRiskLevels ==
    /\ pc = "start"
    /\ args \in [risk_input : Texts]
    /\ pc' = "parse_risk_levels"
    /\ ret' = parse_risk_levels(args.risk_input)
    /\ UNCHANGED <<args, history, saved_settings, now>>

NextParse == CallParseRiskLevels

SpecParse == InitParse /\ [][NextParse]_vars

(***************************************************************************)
(* Texts, used only to state the claims about parse_risk_levels.           *)
(***************************************************************************)
\* the digits of a natural number ("0" for 0)
RECURSIVE DigitsOf(_)
DigitsOf(n) ==
    IF n < 10 THEN <<DigitChars[n + 1]>>
    ELSE Append(DigitsOf(n \div 10), DigitChars[(n % 10) + 1])

\* n written with exactly k digits
RECURSIVE Padded(_, _)
Padded(n, k) ==
    IF k = 0 THEN <<>> ELSE Append(Padded(n \div 10, k - 1), DigitChars[(n % 10) + 1])

\* str(x) of a float x >= 0 that Python writes without an exponent
FormatFloat(x) ==
    IF x.e >= 0 THEN DigitsOf(x.c * Pow10(x.e)) \o <<Point, "0">>
    ELSE DigitsOf(x.c \div Pow10(-x.e)) \o <<Point>> \o Padded(x.c % Pow10(-x.e), -x.e)

\* sep.join(strs)
RECURSIVE Join(_, _)
Join(strs, sep) ==
    IF Len(strs) = 0 THEN <<>>
    ELSE IF Len(strs) = 1 THEN strs[1]
    ELSE strs[1] \o <<sep>> \o Join(Tail(strs), sep)

NonEmpty(str) == Len(str) > 0
IsNumber(str) == ~IsNone(FloatOfStr(str))

\* the non-empty tokens between commas (of either kind), stripped
CommaTokens(text) ==
    LET parts == split(replace(text, ArabicComma, Comma), Comma)
    IN  SelectSeq([i \in 1..Len(parts) |-> strip(parts[i])], NonEmpty)

\* the non-empty tokens between whitespace
SpaceTokens(text) == SelectSeq(split(text, Space), NonEmpty)

Parsed == pc = "parse_risk_levels"
ParsedList == Parsed /\ ~IsNone(ret[1])

(***************************************************************************)
(* C5: whitespace delimits tokens as commas do: a text of two or more      *)
(* numbers separated by whitespace only parses to the list that the same   *)
(* numbers joined by commas parse to, without an error.                    *)
(***************************************************************************)
C5_WhitespaceDelimits ==
    (/\ Parsed
     /\ \A i \in 1..Len(args.risk_input) :
            args.risk_input[i] \notin {Comma, ArabicComma}
     /\ Len(SpaceTokens(args.risk_input)) >= 2
     /\ \A i \in 1..Len(SpaceTokens(args.risk_input)) :
            IsNumber(SpaceTokens(args.risk_input)[i]))
    => /\ IsNone(ret[2])
       /\ ret = parse_risk_levels(Join(SpaceTokens(args.risk_input), Comma))

C7_FirstBadTokenNamed ==
    Parsed =>
        LET tokens == CommaTokens(args.risk_input)
            bad == {i \in 1..Len(tokens) : ~IsNumber(tokens[i])}
        IN  bad # {} =>
                LET first == CHOOSE i \in bad : \A j \in bad : i <= j
                IN  ret = <<None, Some(ErrInvalidValue(tokens[first]))>>

\* "1,x,." : the number 1, then two tokens that are no numbers
C7_Witness ==
    /\ Parsed
    /\ args.risk_input = <<"1", Comma, "x", Comma, Point>>
    /\ ret = <<None, Some(ErrInvalidValue(<<"x">>))>>

(***************************************************************************)
(* save_to_history (src/app.py 341-353) and the calculate button of main   *)
(* (lines 471-487).  The timestamp of an entry is the wall clock, read to  *)
(* the second.                                                             *)
(***************************************************************************)
\* most entries the history keeps (lines 352-353)
HistoryLimit == 10

\* table_df.to_dict(): per column, the value under each index label
to_dict(table_df) ==
    [i \in 1..Len(table_df.data) |->
        [key |-> table_df.data[i].key,
         rows |-> [j \in 1..Len(table_df.index) |->
                     [key |-> table_df.index[j],
                      value |-> table_df.data[i].rows[j]]]]]

\* mutant: the history is cut from the front, dropping the entry just saved
save_to_history_keep_oldest(capital, stop_loss, leverage, risk_levels, table_df) ==
    LET entry == [timestamp |-> now,
                  capital |-> capital,
                  stop_loss |-> stop_loss,
                  leverage |-> leverage,
                  risk_levels |-> risk_levels,
                  table |-> to_dict(table_df)]
        inserted == <<entry>> \o history
    IN  IF Len(inserted) > HistoryLimit
        THEN SubSeq(inserted, Len(inserted) - HistoryLimit + 1, Len(inserted))
        ELSE inserted

\* the value of st.session_state.history after the call
save_to_history(capital, stop_loss, leverage, risk_levels, table_df) ==
    LET entry == [timestamp |-> now,
                  capital |-> capital,
                  stop_loss |-> stop_loss,
                  leverage |-> leverage,
                  risk_levels |-> risk_levels,
                  table |-> to_dict(table_df)]
        inserted == <<entry>> \o history
    IN  IF Len(inserted) > HistoryLimit
        THEN SubSeq(inserted, 1, HistoryLimit)
        ELSE inserted

\* mutant: the entry is saved as soon as the text has parsed, whatever
\* create_risk_management_table returns
calculate_button_saves_early(capital, stop_loss_percentage, leverage, risk_inputs_str) ==
    LET parsed == parse_risk_levels(risk_inputs_str)
    IN  IF ~IsNone(parsed[2])
        THEN [ret |-> <<None, parsed[2]>>, history |-> history]
        ELSE LET made == create_risk_management_table(
                            capital, stop_loss_percentage, Get(parsed[1]), leverage)
             IN  [ret |-> made,
                  history |-> save_to_history(
                                capital, stop_loss_percentage, leverage,
                                Get(parsed[1]),
                                IF IsNone(made[1]) THEN DataFrame(<<>>, <<>>)
                                ELSE Get(made[1]))]

\* lines 471-487: what the button shows, <<table or None, error or None>>,
\* and the value of st.session_state.history after it
calculate_button(capital, stop_loss_percentage, leverage, risk_inputs_str) ==
    LET parsed == parse_risk_levels(risk_inputs_str)
    IN  IF ~IsNone(parsed[2])
        THEN [ret |-> <<None, parsed[2]>>, history |-> history]
        ELSE LET made == create_risk_management_table(
                            capital, stop_loss_percentage, Get(parsed[1]), leverage)
             IN  IF ~IsNone(made[2])
                 THEN [ret |-> <<None, made[2]>>, history |-> history]
                 ELSE [ret |-> made,
                       history |-> save_to_history(
                                     capital, stop_loss_percentage, leverage,
                                     Get(parsed[1]), Get(made[1]))]

(***************************************************************************)
(* Specification SpecSession: one session of the main tab and the history  *)
(* tab.  The form starts at the saved settings (lines 397-469); the user   *)
(* edits the risk-level text, clicks the calculate button, saves the       *)
(* settings or clears the history, and time passes.                        *)
(***************************************************************************)
\* latest second of the wall clock in the model
MaxTime == 1

\* the default text, '1,x' (no number), '100' (out of range) and ''
FormTexts ==
    {DefaultRiskInput, <<"1", Comma, "x">>, <<"1", "0", "0">>, <<>>}

FormInputs ==
    [capital : {DefaultCapital}, stop_loss : {DefaultStopLoss},
     leverage : {DefaultLeverage}, risk_levels : FormTexts]

InitSession ==
    /\ pc = "start"
    /\ init_session_state
    /\ args = [capital |-> saved_settings.capital,
               stop_loss |-> saved_settings.stop_loss,
               leverage |-> DefaultLeverage,
               risk_levels |-> saved_settings.risk_levels]
    /\ ret = None
    /\ now = 0

\* the user changes a widget of the form: the script runs again with no
\* button pressed and shows no result
EditForm ==
    /\ \E form \in FormInputs : form # args /\ args' = form
    /\ pc' = "edit"
    /\ ret' = None
    /\ UNCHANGED <<history, saved_settings, now>>

ClickCalculate ==
    /\ args \in FormInputs
    /\ pc' = "calculate"
    /\ LET shown == calculate_button(args.capital, args.stop_loss,
                                     args.leverage, args.risk_levels)
       IN  /\ ret' = shown.ret
           /\ history' = shown.history
    /\ UNCHANGED <<args, saved_settings, now>>

\* lines 382-389: the settings become the values of the form's widgets
ClickSaveSettings ==
    /\ args \in FormInputs
    /\ pc' = "save_settings"
    /\ saved_settings' = [capital |-> args.capital,
                          stop_loss |-> args.stop_loss,
                          leverage |-> args.leverage,
                          risk_levels |-> args.risk_levels]
    /\ ret' = None
    /\ UNCHANGED <<args, history, now>>

\* lines 634-650: the button shows only while the history has entries
ClickClearHistory ==
    /\ Len(history) # 0
    /\ pc' = "clear_history"
    /\ history' = <<>>
    /\ ret' = None
    /\ UNCHANGED <<args, saved_settings, now>>

\* a second of the wall clock passes
Tick ==
    /\ now < MaxTime
    /\ now' = now + 1
    /\ UNCHANGED <<pc, args, ret, history, saved_settings>>

NextSession ==
    \/ EditForm
    \/ ClickCalculate
    \/ ClickSaveSettings
    \/ ClickClearHistory
    \/ Tick

SpecSession == InitSession /\ [][NextSession]_vars

\* the shape of a save: hist is old with one entry put in front and, when
\* old was full, without old's last entry
Take(seq, n) == SubSeq(seq, 1, Min(n, Len(seq)))

SavedInFront(old, hist) ==
    /\ Len(hist) = Min(Len(old) + 1, HistoryLimit)
    /\ Tail(hist) = Take(old, HistoryLimit - 1)

NewestFirst(hist) ==
    \A i, j \in 1..Len(hist) : i < j => hist[i].timestamp >= hist[j].timestamp

(***************************************************************************)
(* C11: the history never holds more than 10 entries and is ordered newest *)
(* first; a step changes it only by emptying it (the clear button does so) *)
(* or by a save (a calculation that shows a table does one), which puts    *)
(* the new entry at the front, keeps the others in their order one place   *)
(* down and drops the last one only when there were 10 already.            *)
(***************************************************************************)
C11_HistoryBounded ==
    /\ [](Len(history) <= HistoryLimit /\ NewestFirst(history))
    /\ [][/\ ClickClearHistory => history' = <<>>
          /\ ClickCalculate /\ ~IsNone(ret'[1]) =>
                /\ SavedInFront(history, history')
                /\ history'[1].timestamp = now
          /\ history' # history =>
                \/ ClickClearHistory
                \/ /\ SavedInFront(history, history')
                   /\ history'[1].timestamp = now]_vars

\* ten entries just after a save, the newest of a later second than the
\* oldest
C11_Witness ==
    /\ pc = "calculate"
    /\ Len(history) = HistoryLimit
    /\ history[1].timestamp > history[HistoryLimit].timestamp

\* parse_risk_levels and create_risk_management_table both return without
\* an error for the values of the form
BothSucceed(form) ==
    LET parsed == parse_risk_levels(form.risk_levels)
    IN  /\ IsNone(parsed[2])
        /\ IsNone(create_risk_management_table(
                    form.capital, form.stop_loss, Get(parsed[1]), form.leverage)[2])

(***************************************************************************)
(* C12: a click on the calculate button never changes saved_settings; when *)
(* parse_risk_levels and create_risk_management_table both succeed it      *)
(* shows the table and adds exactly one entry to the history, the one of   *)
(* the form's values, in front; when either fails it shows no table and    *)
(* leaves the history as it was.                                           *)
(***************************************************************************)
C12_CalculateFrame ==
    [][ClickCalculate =>
        /\ saved_settings' = saved_settings
        /\ IF BothSucceed(args)
           THEN /\ ~IsNone(ret'[1])
                /\ SavedInFront(history, history')
                /\ history'[1].capital = args.capital
                /\ history'[1].stop_loss = args.stop_loss
                /\ history'[1].leverage = args.leverage
                /\ history'[1].risk_levels =
                        Get(parse_risk_levels(args.risk_levels)[1])
                /\ history'[1].table = to_dict(Get(ret'[1]))
           ELSE /\ IsNone(ret'[1])
                /\ ~IsNone(ret'[2])
                /\ history' = history]_vars

\* a calculation that failed on '100' (it parses, and is out of range),
\* after earlier ones were saved and other settings than the first were
\* saved
C12_Witness ==
    /\ pc = "calculate"
    /\ args.risk_levels = <<"1", "0", "0">>
    /\ ret = <<None, Some(ErrRiskHigh)>>
    /\ Len(history) = 2
    /\ saved_settings.risk_levels # DefaultRiskInput

(***************************************************************************)
(* calculate_sl_from_prices (src/app.py 237-242) and the way main uses it  *)
(* (lines 407-414, 471-479): the percentage it returns is the stop-loss    *)
(* of the calculation.  It is float arithmetic: every operation rounds.    *)
(***************************************************************************)
\* returns a float; in the shape <<value or None, error or None>> of the
\* other results, the error is always None
calculate_sl_from_prices(entry_price, sl_price, position_type) ==
    IF position_type = "Long"
    THEN <<Some(AbsNum(Mul(Div(Sub(entry_price, sl_price, FloatPrec),
                               entry_price, FloatPrec),
                           Hundred, FloatPrec))), None>>
    ELSE <<Some(AbsNum(Mul(Div(Sub(sl_price, entry_price, FloatPrec),
                               entry_price, FloatPrec),
                           Hundred, FloatPrec))), None>>

(***************************************************************************)
(* Specification SpecPrices: the stop-loss derived from an entry price, a  *)
(* stop price and a position type, then the calculate button with the      *)
(* other inputs at the values the form starts with (lines 182-187).        *)
(***************************************************************************)
EntryPrices == {Num(1, -2), Num(5, 1), Hundred, Num(2, 2)}
StopPrices == {Num(1, -2), Num(5, 1), Num(98, 0), Num(985, -1), Hundred,
               Num(102, 0), Num(2, 2), Num(25, 1)}
PositionTypes == {"Long", "Short"}

PriceArgs ==
    [entry_price : EntryPrices, sl_price : StopPrices, position_type : PositionTypes]

InitPrices ==
    /\ pc = "start"
    /\ args \in PriceArgs
    /\ ret = None
    /\ init_session_state
    /\ now = 0

CallCalculateSlFromPrices ==
    /\ pc = "start"
    /\ args \in PriceArgs
    /\ pc' = "calculate_sl_from_prices"
    /\ ret' = calculate_sl_from_prices(args.entry_price, args.sl_price,
                                       args.position_type)
    /\ UNCHANGED <<args, history, saved_settings, now>>

\* the calculate button, the stop-loss being the one derived from the prices
ClickCalculateFromPrices ==
    /\ pc = "calculate_sl_from_prices"
    /\ pc' = "calculate"
    /\ LET shown == calculate_button(DefaultCapital, Get(ret[1]),
                                     DefaultLeverage, DefaultRiskInput)
       IN  /\ ret' = shown.ret
           /\ history' = shown.history
    /\ UNCHANGED <<args, saved_settings, now>>

NextPrices == CallCalculateSlFromPrices \/ ClickCalculateFromPrices

SpecPrices == InitPrices /\ [][NextPrices]_vars

\* the stop price is on the wrong side of the entry price for the direction
WrongSide(a) ==
    \/ a.position_type = "Long" /\ ~Less(a.sl_price, a.entry_price)
    \/ a.position_type = "Short" /\ ~Greater(a.sl_price, a.entry_price)

(***************************************************************************)
(* C4: a stop price on the wrong side of the entry price (not below it for *)
(* a Long, not above it for a Short) gives a direction-mismatch error and  *)
(* no stop-loss percentage, and no table is computed from it.              *)
(***************************************************************************)
C4_DirectionChecked ==
    /\ (pc = "calculate_sl_from_prices" /\ WrongSide(args)
            => IsNone(ret[1]) /\ ~IsNone(ret[2]))
    /\ (pc = "calculate" /\ WrongSide(args) => IsNone(ret[1]))

(***************************************************************************)
(* The portfolio tab of main (src/app.py 573-628): the trades' dollar      *)
(* risk, position size and margin (lines 592-594), and the summary with    *)
(* its advisory messages on the button (lines 604-628).  All of it is      *)
(* float arithmetic.                                                       *)
(***************************************************************************)
\* most simultaneous trades in the model (the form allows 1 to 10)
MaxTrades == 2

SignalHigh == "total risk is above 5%"
SignalElevated == "total risk is above the advised 3%"

\* lines 592-601: one row of trades_data
trade_row(mt_capital, t) ==
    LET dollar_risk == Div(Mul(mt_capital, t.t_risk, FloatPrec), Hundred, FloatPrec)
        position_size == Div(dollar_risk, Div(t.t_sl, Hundred, FloatPrec), FloatPrec)
        margin_needed == Div(position_size, t.t_lev, FloatPrec)
    IN  [risk_percent |-> t.t_risk, dollar_risk |-> dollar_risk,
         position_size |-> position_size, margin |-> margin_needed]

\* trades_df[name].sum(): the first i values added from the left
RECURSIVE column_sum(_, _, _)
column_sum(rows, name, i) ==
    IF i = 0 THEN Zero
    ELSE Add(column_sum(rows, name, i - 1), rows[i][name], FloatPrec)

\* mutant: the 5% threshold is inclusive and both messages can show
risk_signals_inclusive(total_risk_percent) ==
    (IF GreaterEq(total_risk_percent, Num(5, 0)) THEN {SignalHigh} ELSE {})
    \cup (IF Greater(total_risk_percent, Num(3, 0)) THEN {SignalElevated} ELSE {})

\* lines 625-628: the messages shown, as a set
risk_signals(total_risk_percent) ==
    IF Greater(total_risk_percent, Num(5, 0)) THEN {SignalHigh}
    ELSE IF Greater(total_risk_percent, Num(3, 0)) THEN {SignalElevated}
    ELSE {}

\* lines 604-628: what the button shows
portfolio_summary(mt_capital, trades) ==
    LET trades_data == [i \in 1..Len(trades) |-> trade_row(mt_capital, trades[i])]
        total_risk == column_sum(trades_data, "dollar_risk", Len(trades_data))
        total_margin == column_sum(trades_data, "margin", Len(trades_data))
        total_risk_percent ==
            Mul(Div(total_risk, mt_capital, FloatPrec), Hundred, FloatPrec)
    IN  [total_risk |-> total_risk,
         total_risk_percent |-> total_risk_percent,
         total_margin |-> total_margin,
         free_margin |-> Sub(mt_capital, total_margin, FloatPrec),
         trades_df |-> trades_data,
         signals |-> risk_signals(total_risk_percent)]

(***************************************************************************)
(* Specification SpecPortfolio: the portfolio button for 1 to MaxTrades    *)
(* trades.                                                                 *)
(***************************************************************************)
TradeRisks == {Num(5, -1), One, Num(2, 0), Num(3, 0), Num(5, 0), Num(6, 0)}
TradeStops == {Num(15, -1), Num(2, 0)}
TradeLeverages == {One, Num(1, 1)}
PortfolioCapitals == {Num(3, 2), Num(1, 3)}

Trades == [t_risk : TradeRisks, t_sl : TradeStops, t_lev : TradeLeverages]

PortfolioArgs ==
    [mt_capital : PortfolioCapitals,
     trades : SeqsUpTo(Trades, MaxTrades) \ {<<>>}]

InitPortfolio ==
    /\ pc = "start"
    /\ args \in PortfolioArgs
    /\ ret = None
    /\ init_session_state
    /\ now = 0

ClickPortfolio ==
    /\ pc = "start"
    /\ args \in PortfolioArgs
    /\ pc' = "portfolio"
    /\ ret' = portfolio_summary(args.mt_capital, args.trades)
    /\ UNCHANGED <<args, history, saved_settings, now>>

NextPortfolio == ClickPortfolio

SpecPortfolio == InitPortfolio /\ [][NextPortfolio]_vars

(***************************************************************************)
(* C10: the summary's total risk percent gets exactly one advisory level:  *)
(* "high" if and only if it is above 5, "elevated" if and only if it is    *)
(* above 3 and at most 5, no message if and only if it is at most 3; the   *)
(* two messages never show together and the numbers show in every case.    *)
(***************************************************************************)
C10_RiskThresholds ==
    pc = "portfolio" =>
        LET p == ret.total_risk_percent
        IN  /\ ret.signals \in {{}, {SignalHigh}, {SignalElevated}}
            /\ (ret.signals = {SignalHigh} <=> Greater(p, Num(5, 0)))
            /\ (ret.signals = {SignalElevated}
                    <=> Greater(p, Num(3, 0)) /\ LessEq(p, Num(5, 0)))
            /\ (ret.signals = {} <=> LessEq(p, Num(3, 0)))
            /\ Len(ret.trades_df) = Len(args.trades)

\* capital = 1000, two trades at 2% risk, 2% stop-loss, leverage 1:
\* total risk 40, 4% of the capital, "elevated" and not "high"
C10_Witness ==
    /\ pc = "portfolio"
    /\ args.mt_capital = Num(1, 3)
    /\ args.trades = <<[t_risk |-> Num(2, 0), t_sl |-> Num(2, 0), t_lev |-> One],
                       [t_risk |-> Num(2, 0), t_sl |-> Num(2, 0), t_lev |-> One]>>
    /\ ret.total_risk = Num(4, 1)
    /\ ret.total_risk_percent = Num(4, 0)
    /\ ret.signals = {SignalElevated}

(***************************************************************************)
(* The reverse calculation of main (src/app.py 546-567), from the          *)
(* available margin to the capital, the position size and the dollar risk. *)
(* It is float arithmetic.                                                 *)
(***************************************************************************)
\* lines 557-559: what the button shows
reverse_calculation(available_margin, rev_sl, rev_leverage, rev_risk) ==
    LET total_capital_needed ==
            Div(Mul(available_margin, Hundred, FloatPrec), rev_risk, FloatPrec)
        position_size == Mul(available_margin, rev_leverage, FloatPrec)
        dollar_risk == Div(Mul(position_size, rev_sl, FloatPrec), Hundred, FloatPrec)
    IN  [total_capital_needed |-> total_capital_needed,
         position_size |-> position_size,
         dollar_risk |-> dollar_risk,
         rev_risk |-> rev_risk]

(***************************************************************************)
(* Specification SpecReverse: the reverse button for margins, stop-losses, *)
(* leverages and target risks the form accepts, the values it starts with  *)
(* (100, 2.0, 10, 1.0) among them.                                         *)
(***************************************************************************)
AvailableMargins == {Num(5, 1), Hundred, Num(25, 1)}
ReverseStops == {Num(15, -1), Num(2, 0), Num(1, 1)}
ReverseLeverages == {One, Num(1, 1), Num(5, 1)}
ReverseRisks == {Num(5, -1), One, Num(2, 0)}

ReverseArgs ==
    [available_margin : AvailableMargins, rev_sl : ReverseStops,
     rev_leverage : ReverseLeverages, rev_risk : ReverseRisks]

InitReverse ==
    /\ pc = "start"
    /\ args \in ReverseArgs
    /\ ret = None
    /\ init_session_state
    /\ now = 0

ClickReverse ==
    /\ pc = "start"
    /\ args \in ReverseArgs
    /\ pc' = "reverse"
    /\ ret' = reverse_calculation(args.available_margin, args.rev_sl,
                                  args.rev_leverage, args.rev_risk)
    /\ UNCHANGED <<args, history, saved_settings, now>>

NextReverse == ClickReverse

SpecReverse == InitReverse /\ [][NextReverse]_vars

\* the column of the forward calculation for the capital the reverse
\* calculation reports and the same stop-loss, leverage and risk
ForwardColumn ==
    Get(create_risk_management_table(
            ret.total_capital_needed, args.rev_sl, <<args.rev_risk>>,
            args.rev_leverage)[1]).data[1].rows

(***************************************************************************)
(* C13: the reverse calculation agrees with the forward one, up to         *)
(* rounding: the dollar risk it reports is the target risk percent of the  *)
(* capital it reports, and the forward calculation for that capital gives  *)
(* the position size it reports and a margin (the position size itself at  *)
(* leverage 1) equal to the available margin.                              *)
(***************************************************************************)
C13_ReverseConsistent ==
    pc = "reverse" =>
        /\ Close(ret.dollar_risk,
                 Percent(ExactMul(ret.total_capital_needed, args.rev_risk)))
        /\ Close(ForwardColumn[1], ret.dollar_risk)
        /\ Close(ForwardColumn[2], ret.position_size)
        /\ Close(ForwardColumn[Len(ForwardColumn)], args.available_margin)

(***************************************************************************)
(* calculate_rr_ratio (src/app.py 244-255) and the message main shows for  *)
(* the ratio (lines 456-463).  It is float arithmetic.                     *)
(***************************************************************************)
\* mutant: the Short branch takes the differences with their signs
calculate_rr_ratio_signed(entry_price, sl_price, tp_price, position_type) ==
    LET risk == IF position_type = "Long"
                THEN AbsNum(Sub(entry_price, sl_price, FloatPrec))
                ELSE Sub(sl_price, entry_price, FloatPrec)
        reward == IF position_type = "Long"
                  THEN AbsNum(Sub(tp_price, entry_price, FloatPrec))
                  ELSE Sub(entry_price, tp_price, FloatPrec)
    IN  IF risk = Zero THEN Zero ELSE Div(reward, risk, FloatPrec)

calculate_rr_ratio(entry_price, sl_price, tp_price, position_type) ==
    LET risk == IF position_type = "Long"
                THEN AbsNum(Sub(entry_price, sl_price, FloatPrec))
                ELSE AbsNum(Sub(sl_price, entry_price, FloatPrec))
        reward == IF position_type = "Long"
                  THEN AbsNum(Sub(tp_price, entry_price, FloatPrec))
                  ELSE AbsNum(Sub(entry_price, tp_price, FloatPrec))
    IN  IF risk = Zero THEN Zero ELSE Div(reward, risk, FloatPrec)

RatioExcellent == "excellent"
RatioAcceptable == "acceptable"
RatioWeak == "weak"

\* lines 458-463
ratio_message(rr_ratio) ==
    IF GreaterEq(rr_ratio, Num(2, 0)) THEN RatioExcellent
    ELSE IF GreaterEq(rr_ratio, One) THEN RatioAcceptable
    ELSE RatioWeak

(***************************************************************************)
(* Specification SpecRatio: the ratio for entry, stop and take-profit      *)
(* prices on either side of each other, for both position types.           *)
(***************************************************************************)
RatioEntries == {Num(5, 1), Hundred, Num(2, 2)}
RatioStops == {Num(5, 1), Num(98, 0), Hundred, Num(102, 0)}
RatioTargets == {Num(94, 0), Hundred, Num(104, 0), Num(106, 0)}

RatioArgs ==
    [rr_entry : RatioEntries, rr_sl : RatioStops, rr_tp : RatioTargets,
     rr_position : PositionTypes]

InitRatio ==
    /\ pc = "start"
    /\ args \in RatioArgs
    /\ ret = None
    /\ init_session_state
    /\ now = 0

CallCalculateRrRatio ==
    /\ pc = "start"
    /\ args \in RatioArgs
    /\ pc' = "calculate_rr_ratio"
    /\ LET rr_ratio == calculate_rr_ratio(args.rr_entry, args.rr_sl,
                                          args.rr_tp, args.rr_position)
       IN  ret' = [rr_ratio |-> rr_ratio, message |-> ratio_message(rr_ratio)]
    /\ UNCHANGED <<args, history, saved_settings, now>>

NextRatio == CallCalculateRrRatio

SpecRatio == InitRatio /\ [][NextRatio]_vars

\* |x - y|, exactly
Distance(x, y) ==
    LET e == Min(x.e, y.e) IN Norm(Abs(Coef(x, e) - Coef(y, e)), e)

OtherType(position_type) == IF position_type = "Long" THEN "Short" ELSE "Long"

(***************************************************************************)
(* C14: calculate_rr_ratio returns a number that is never negative: 0 when *)
(* the stop price is the entry price, otherwise |tp - entry| / |entry -    *)
(* sl| (up to the rounding of the division); the result and the message    *)
(* shown for it are the same for Long and for Short, wherever the stop and *)
(* the take-profit are.                                                    *)
(***************************************************************************)
C14_RatioDirectionBlind ==
    pc = "calculate_rr_ratio" =>
        /\ GreaterEq(ret.rr_ratio, Zero)
        /\ args.rr_sl = args.rr_entry => ret.rr_ratio = Zero
        /\ args.rr_sl # args.rr_entry =>
                Close(ExactMul(ret.rr_ratio, Distance(args.rr_entry, args.rr_sl)),
                      Distance(args.rr_tp, args.rr_entry))
        /\ ret.rr_ratio = calculate_rr_ratio(args.rr_entry, args.rr_sl, args.rr_tp,
                                             OtherType(args.rr_position))
        /\ ret.message = ratio_message(
                            calculate_rr_ratio(args.rr_entry, args.rr_sl, args.rr_tp,
                                               OtherType(args.rr_position)))

\* a Short with the stop below and the take-profit above the entry, both on
\* the wrong side: the ratio is that of the Long, 6 / 2
C14_Witness ==
    /\ pc = "calculate_rr_ratio"
    /\ args = [rr_entry |-> Hundred, rr_sl |-> Num(98, 0), rr_tp |-> Num(106, 0),
               rr_position |-> "Short"]
    /\ ret = [rr_ratio |-> Num(3, 0), message |-> RatioExcellent]

=============================================================================
